---- MODULE Spec2Model ----
(***************************************************************************)
(* A model of src/src/utils/currency.utils.ts: the CurrencyAmount class,   *)
(* its currency registry, its parsing (parseInput) and formatting          *)
(* (formatHuman), and its arithmetic, comparison and formatting methods;   *)
(* of the LocalStore of src/src/utils/cache.utils.ts and the clock it      *)
(* reads; of the BulkPromises of src/src/utils/promise.utils.ts and the    *)
(* promises of its runs; and of the functions getStartOf and               *)
(* validateDateRange of src/src/utils/datetime.utils.ts, of                *)
(* isAvailableChain, getChainIdByValue and getChainValueById of            *)
(* src/src/blockchain/shared.ts and of getBrowser of                       *)
(* src/src/utils/http.utils.ts.  Each has its own                          *)
(* variables and its own specification (Spec and SpecParse, SpecStore,     *)
(* SpecBulk, SpecUtils), which leaves the variables of the others alone.   *)
(*                                                                         *)
(* Strings are sequences of one-character strings, so that split, padEnd,  *)
(* padStart, slice, BigInt(string) and parseFloat are modelled by what     *)
(* they do to the characters.  A JavaScript number is a record             *)
(*   [kind |-> "fin", neg, m, n]   with value (-1)^neg * 0.d1..dk * 10^n   *)
(* where d1..dk are the decimal digits of m (ECMAScript Number::toString's *)
(* s, k and n), or kind "zero", "nan" or "inf".  A number that is the      *)
(* result of parseFloat is a record [nan, num, scale] with value           *)
(* num / 10^scale.  Numbers are exact rationals: the model covers the      *)
(* magnitudes (below 2^53) where the double arithmetic involved is exact.  *)
(***************************************************************************)
EXTENDS Integers, Sequences, FiniteSets, TLC

VARIABLES
    inst,   \* the instance: [amount, currency], or NoInstance
    call,   \* the last call: [op, arg, code]
    ret,    \* what the last call returned (NoValue if it threw)
    err,    \* the error the last call threw, or "none"
    prev,   \* the instance before the last call
    nops,   \* number of method calls made on the current instance
    chain   \* [base, sum]: the amount when the running chain of add/subtract
            \* calls began, and the signed sum of the operands parsed since

\* a LocalStore (src/src/utils/cache.utils.ts) and the clock it reads
VARIABLES
    cache,      \* the Map's entries in insertion order, each [key, record]
    defaultTtl, \* the constructor's parameter property
    now,        \* Date.now()
    storeCall,  \* the last call on the store, [op, key, value, ttl]; op is "tick" once
                \* the clock has advanced since
    storeRet,   \* what the last call returned
    lastAdd,    \* for each key, the last add of the key that no remove of the key followed
    ticks,      \* number of times the clock has advanced
    calls       \* number of method calls made on the store

\* a BulkPromises (src/src/utils/promise.utils.ts) and the promises it made
VARIABLES
    functions,  \* the queue: a sequence of functions [id, rejects]
    runs,       \* the run() calls so far: [at, jobs, settled, state, result]
    invoked,    \* the invocations so far, in order: [fn, run]
    history     \* the calls so far, in order: [op, init, condition, fn]

\* a call of one of the functions of src/src/utils/datetime.utils.ts and
\* src/src/blockchain/shared.ts
VARIABLES
    utilCall,   \* the last call: [fn, args]
    utilRet     \* its outcome: [err, value]

curVars == <<inst, call, ret, err, prev, nops, chain>>

storeVars == <<cache, defaultTtl, now, storeCall, storeRet, lastAdd, ticks, calls>>

bulkVars == <<functions, runs, invoked, history>>

utilVars == <<utilCall, utilRet>>

vars == <<curVars, storeVars, bulkVars, utilVars>>

\* ------------------------------------------------------------ bounds

\* longest run of zeros that opens the fractional part of an input numeral
MaxZeros == 9
\* number of method calls made on one instance
MaxOps == 2

\* ------------------------------------------------------------ characters

DigitChars == <<"0", "1", "2", "3", "4", "5", "6", "7", "8", "9">>

IsDigit(ch) == \E i \in 1..10 : DigitChars[i] = ch

DigitValue(ch) == (CHOOSE i \in 1..10 : DigitChars[i] = ch) - 1

AllDigits(s) == \A i \in 1..Len(s) : IsDigit(s[i])

RECURSIVE DigitsValue(_)
DigitsValue(s) ==
    IF s = <<>> THEN 0
    ELSE DigitsValue(SubSeq(s, 1, Len(s) - 1)) * 10 + DigitValue(s[Len(s)])

RECURSIVE Pow10(_)
Pow10(n) == IF n <= 0 THEN 1 ELSE 10 * Pow10(n - 1)

Abs(x) == IF x < 0 THEN -x ELSE x

\* ------------------------------------------------------------ String methods

\* String.prototype.includes, for a one-character needle
includes(s, ch) == \E i \in 1..Len(s) : s[i] = ch

\* String.prototype.repeat
RECURSIVE repeat(_, _)
repeat(ch, n) == IF n <= 0 THEN <<>> ELSE <<ch>> \o repeat(ch, n - 1)

\* String.prototype.split, for a one-character separator: every piece
RECURSIVE split(_, _)
split(s, sep) ==
    IF ~includes(s, sep) THEN <<s>>
    ELSE LET i == CHOOSE j \in 1..Len(s) :
                      s[j] = sep /\ \A h \in 1..(j - 1) : s[h] # sep
         IN <<SubSeq(s, 1, i - 1)>> \o split(SubSeq(s, i + 1, Len(s)), sep)

\* String.prototype.padEnd / padStart with a one-character filler
padEnd(s, n, ch) == s \o repeat(ch, n - Len(s))

padStart(s, n, ch) == repeat(ch, n - Len(s)) \o s

\* s.slice(0, n) for n >= 0
sliceHead(s, n) == SubSeq(s, 1, IF n < Len(s) THEN n ELSE Len(s))

\* s.slice(0, -n) for n > 0
sliceButLast(s, n) == SubSeq(s, 1, Len(s) - n)

\* s.slice(-n) for n > 0
sliceLast(s, n) == SubSeq(s, IF Len(s) - n + 1 < 1 THEN 1 ELSE Len(s) - n + 1, Len(s))

\* ------------------------------------------------------------ conversions

\* BigInt.prototype.toString
RECURSIVE NatToString(_)
NatToString(n) ==
    IF n < 10 THEN <<DigitChars[n + 1]>>
    ELSE NatToString(n \div 10) \o <<DigitChars[(n % 10) + 1]>>

BigIntToString(n) == IF n < 0 THEN <<"-">> \o NatToString(-n) ELSE NatToString(n)

\* BigInt(string): StringToBigInt.  The empty string is 0n; otherwise an
\* optional sign and one or more decimal digits, else a SyntaxError.
\* (Input strings of the model hold no white space and no 0x/0o/0b prefix.)
BigInt(s) ==
    IF s = <<>> THEN [ok |-> TRUE, val |-> 0]
    ELSE LET signed == s[1] \in {"-", "+"}
             body == IF signed THEN Tail(s) ELSE s
         IN IF body # <<>> /\ AllDigits(body)
            THEN [ok |-> TRUE,
                  val |-> IF s[1] = "-" THEN -DigitsValue(body) ELSE DigitsValue(body)]
            ELSE [ok |-> FALSE, val |-> 0]

\* Number.prototype.toString (radix 10), ECMAScript Number::toString
NumberToString(x) ==
    IF x.kind = "nan" THEN <<"N", "a", "N">>
    ELSE IF x.kind = "zero" THEN <<"0">>
    ELSE LET sign == IF x.neg THEN <<"-">> ELSE <<>> IN
         IF x.kind = "inf"
         THEN sign \o <<"I", "n", "f", "i", "n", "i", "t", "y">>
         ELSE LET s == NatToString(x.m)
                  k == Len(s)
                  n == x.n
                  e == n - 1
              IN sign \o
                 (IF k <= n /\ n <= 21 THEN s \o repeat("0", n - k)
                  ELSE IF 0 < n /\ n <= 21
                       THEN SubSeq(s, 1, n) \o <<".">> \o SubSeq(s, n + 1, k)
                  ELSE IF -6 < n /\ n <= 0
                       THEN <<"0", ".">> \o repeat("0", -n) \o s
                  ELSE (IF k = 1 THEN s ELSE <<s[1], ".">> \o Tail(s))
                       \o <<"e">> \o (IF e < 0 THEN <<"-">> ELSE <<"+">>)
                       \o NatToString(Abs(e)))

\* the longest prefix of s made of digits
RECURSIVE DigitPrefix(_)
DigitPrefix(s) ==
    IF s = <<>> \/ ~IsDigit(s[1]) THEN <<>>
    ELSE <<s[1]>> \o DigitPrefix(Tail(s))

\* parseFloat: the longest prefix that is a decimal literal (optional sign,
\* digits, optional point and digits); NaN when there is none.  The strings
\* formatHuman builds hold digits, "-" and "." only, so no exponent part.
parseFloat(s) ==
    LET signed == s # <<>> /\ s[1] \in {"-", "+"}
        neg == s # <<>> /\ s[1] = "-"
        body == IF signed THEN Tail(s) ELSE s
        ip == DigitPrefix(body)
        rest == SubSeq(body, Len(ip) + 1, Len(body))
        fp == IF rest # <<>> /\ rest[1] = "." THEN DigitPrefix(Tail(rest)) ELSE <<>>
    IN IF ip = <<>> /\ fp = <<>>
       THEN [nan |-> TRUE, num |-> 0, scale |-> 0]
       ELSE [nan |-> FALSE,
             num |-> (IF neg THEN -1 ELSE 1) * (DigitsValue(ip) * Pow10(Len(fp)) + DigitsValue(fp)),
             scale |-> Len(fp)]

\* ------------------------------------------------------------ registry

CurrencyCode == {"usd", "sol"}

\* currencyMap.get of a code that has no entry
Undefined == [code |-> "undefined", decimals |-> 0, name |-> "", category |-> ""]

currencyMap ==
    [c \in CurrencyCode |->
        IF c = "usd"
        THEN [code |-> "usd", decimals |-> 4, name |-> "US Dollar", category |-> "fiat"]
        ELSE [code |-> "sol", decimals |-> 9, name |-> "Solana", category |-> "crypto"]]

\* a lookup that falls back to a default currency
currencyMapGetOrDefault(code) ==
    IF code \in DOMAIN currencyMap THEN currencyMap[code] ELSE currencyMap["usd"]

currencyMapGet(code) ==
    IF code \in DOMAIN currencyMap THEN currencyMap[code] ELSE Undefined

\* ------------------------------------------------------------ values

\* AmountType = string | number | bigint
Str(s) == [type |-> "string", s |-> s, x |-> [kind |-> "zero", neg |-> FALSE, m |-> 0, n |-> 0], n |-> 0]

NumV(x) == [type |-> "number", s |-> <<>>, x |-> x, n |-> 0]

Big(n) == [type |-> "bigint", s |-> <<>>, x |-> [kind |-> "zero", neg |-> FALSE, m |-> 0, n |-> 0], n |-> n]

\* number literals
Fin(neg, m, n) == [kind |-> "fin", neg |-> neg, m |-> m, n |-> n]

Zero == [kind |-> "zero", neg |-> FALSE, m |-> 0, n |-> 0]

NaN == [kind |-> "nan", neg |-> FALSE, m |-> 0, n |-> 0]

Infinity == [kind |-> "inf", neg |-> FALSE, m |-> 0, n |-> 0]

\* a number a parseFloat returned
Dec(num, scale) == [nan |-> FALSE, num |-> num, scale |-> scale]

\* return values
NoValue == [type |-> "none", bool |-> FALSE, str |-> <<>>, dec |-> Dec(0, 0)]

This == [type |-> "this", bool |-> FALSE, str |-> <<>>, dec |-> Dec(0, 0)]

BoolValue(b) == [type |-> "boolean", bool |-> b, str |-> <<>>, dec |-> Dec(0, 0)]

StringValue(s) == [type |-> "string", bool |-> FALSE, str |-> s, dec |-> Dec(0, 0)]

NumberValue(d) == [type |-> "number", bool |-> FALSE, str |-> <<>>, dec |-> d]

FormatsValue(s, d) == [type |-> "formats", bool |-> FALSE, str |-> s, dec |-> d]

NoInstance == [live |-> FALSE, amount |-> 0, currency |-> Undefined]

Instance(amount, currency) == [live |-> TRUE, amount |-> amount, currency |-> currency]

\* ------------------------------------------------------------ CurrencyAmount

\* a scaling of bigint inputs by the currency's decimals, which the code does not do
bigintScaled(value, currency) ==
    [ok |-> TRUE, val |-> value.n * Pow10(currency.decimals)]

\* parseInput's first branch: a bigint is returned as it is
bigintInput(value, currency) == [ok |-> TRUE, val |-> value.n]

\* parseInput: [ok, val]; ok is FALSE when BigInt throws its SyntaxError
parseInput(value, currency) ==
    IF value.type = "bigint" THEN bigintInput(value, currency)
    ELSE LET num0 == IF value.type = "number" THEN NumberToString(value.x) ELSE value.s
             decimals == currency.decimals
             num == IF currency.category = "fiat" /\ ~includes(num0, ".")
                    THEN num0 \o <<".">> \o repeat("0", decimals)
                    ELSE num0
             parts == split(num, ".")
             intPart == parts[1]
             fracPart == IF Len(parts) >= 2 THEN parts[2] ELSE <<>>
             padded == sliceHead(padEnd(fracPart, decimals, "0"), decimals)
         IN BigInt(intPart \o padded)

formatHuman(value, currency) ==
    LET decimals == currency.decimals
        str == padStart(BigIntToString(value), decimals + 1, "0")
        head == sliceButLast(str, decimals)
        intPart == IF head = <<>> THEN <<"0">> ELSE head
        fracPart == sliceLast(str, decimals)
    IN parseFloat(intPart \o <<".">> \o fracPart)

\* The outcome of a call: the error thrown ("none" if none), the instance
\* afterwards and the value returned.
Outcome(e, i, r) == [err |-> e, inst |-> i, ret |-> r]

\* new CurrencyAmount(input, code), through the factory currencyAmount
constructor(input, code) ==
    LET currency == currencyMapGet(code) IN
    IF currency = Undefined THEN Outcome("Error", NoInstance, NoValue)
    ELSE LET p == parseInput(input, currency) IN
         IF ~p.ok THEN Outcome("SyntaxError", NoInstance, NoValue)
         ELSE Outcome("none", Instance(p.val, currency), This)

currencyAmount(input, currencyCode) == constructor(input, currencyCode)

add(self, value) ==
    LET addAmount == parseInput(value, self.currency) IN
    IF ~addAmount.ok THEN Outcome("SyntaxError", self, NoValue)
    ELSE Outcome("none", Instance(self.amount + addAmount.val, self.currency), This)

\* a subtract that adds
subtractAdding(self, value) == add(self, value)

subtract(self, value) ==
    LET subAmount == parseInput(value, self.currency) IN
    IF ~subAmount.ok THEN Outcome("SyntaxError", self, NoValue)
    ELSE Outcome("none", Instance(self.amount - subAmount.val, self.currency), This)

\* A product or quotient of numbers: the rational p/q (q > 0), NaN or an infinity
Ratio(p, q) == [kind |-> "fin", p |-> p, q |-> q]

NotFinite(kind) == [kind |-> kind, p |-> 0, q |-> 1]

\* the value of a finite number literal as the fraction num/den, den > 0
Numerator(x) ==
    LET e == x.n - Len(NatToString(x.m))
    IN (IF x.neg THEN -1 ELSE 1) * x.m * Pow10(e)

Denominator(x) == Pow10(Len(NatToString(x.m)) - x.n)

\* Number(amount) * factor
Times(a, f) ==
    IF f.kind = "nan" THEN NotFinite("nan")
    ELSE IF f.kind = "inf" THEN (IF a = 0 THEN NotFinite("nan") ELSE NotFinite("inf"))
    ELSE IF f.kind = "zero" THEN Ratio(0, 1)
    ELSE Ratio(a * Numerator(f), Denominator(f))

\* Number(amount) / divisor
Over(a, d) ==
    IF d.kind = "nan" THEN NotFinite("nan")
    ELSE IF d.kind = "inf" THEN Ratio(0, 1)
    ELSE IF d.kind = "zero" THEN (IF a = 0 THEN NotFinite("nan") ELSE NotFinite("inf"))
    ELSE IF Numerator(d) < 0 THEN Ratio(-(a * Denominator(d)), -Numerator(d))
    ELSE Ratio(a * Denominator(d), Numerator(d))

\* a rounding toward minus infinity (Math.floor)
MathFloor(r) ==
    IF r.kind = "fin" THEN Ratio(r.p \div r.q, 1) ELSE r

\* Math.round: floor(x + 1/2); NaN and the infinities are returned as they are
MathRound(r) ==
    IF r.kind = "fin" THEN Ratio((2 * r.p + r.q) \div (2 * r.q), 1) ELSE r

\* a conversion that yields 0n instead of throwing
BigIntOfNumberOrZero(r) ==
    IF r.kind = "fin" /\ r.p % r.q = 0 THEN [ok |-> TRUE, val |-> r.p \div r.q]
    ELSE [ok |-> TRUE, val |-> 0]

\* BigInt(number): a RangeError unless the number is an integer
BigIntOfNumber(r) ==
    IF r.kind = "fin" /\ r.p % r.q = 0 THEN [ok |-> TRUE, val |-> r.p \div r.q]
    ELSE [ok |-> FALSE, val |-> 0]

multiply(self, factor) ==
    LET result == BigIntOfNumber(MathRound(Times(self.amount, factor))) IN
    IF ~result.ok THEN Outcome("RangeError", self, NoValue)
    ELSE Outcome("none", Instance(result.val, self.currency), This)

\* a divide that leaves the amount at zero when it throws
divideClearing(self, divisor) ==
    LET result == BigIntOfNumber(MathRound(Over(self.amount, divisor))) IN
    IF ~result.ok THEN Outcome("RangeError", Instance(0, self.currency), NoValue)
    ELSE Outcome("none", Instance(result.val, self.currency), This)

divide(self, divisor) ==
    LET result == BigIntOfNumber(MathRound(Over(self.amount, divisor))) IN
    IF ~result.ok THEN Outcome("RangeError", self, NoValue)
    ELSE Outcome("none", Instance(result.val, self.currency), This)

\* an lt that leaves the difference in the amount
ltSubtracting(self, value) ==
    LET compare == parseInput(value, self.currency) IN
    IF ~compare.ok THEN Outcome("SyntaxError", self, NoValue)
    ELSE Outcome("none", Instance(self.amount - compare.val, self.currency),
                 BoolValue(self.amount < compare.val))

lt(self, value) ==
    LET compare == parseInput(value, self.currency) IN
    IF ~compare.ok THEN Outcome("SyntaxError", self, NoValue)
    ELSE Outcome("none", self, BoolValue(self.amount < compare.val))

lte(self, value) ==
    LET compare == parseInput(value, self.currency) IN
    IF ~compare.ok THEN Outcome("SyntaxError", self, NoValue)
    ELSE Outcome("none", self, BoolValue(self.amount <= compare.val))

gt(self, value) ==
    LET compare == parseInput(value, self.currency) IN
    IF ~compare.ok THEN Outcome("SyntaxError", self, NoValue)
    ELSE Outcome("none", self, BoolValue(self.amount > compare.val))

\* a gte that is strict
gteStrict(self, value) == gt(self, value)

gte(self, value) ==
    LET compare == parseInput(value, self.currency) IN
    IF ~compare.ok THEN Outcome("SyntaxError", self, NoValue)
    ELSE Outcome("none", self, BoolValue(self.amount >= compare.val))

\* a test that takes zero for positive
isPositiveOrZero(self) == Outcome("none", self, BoolValue(self.amount >= 0))

isPositive(self) == Outcome("none", self, BoolValue(self.amount > 0))

toDecimal(self) == Outcome("none", self, NumberValue(formatHuman(self.amount, self.currency)))

\* an atomic text without the sign
toAtomicUnsigned(self) == Outcome("none", self, StringValue(BigIntToString(Abs(self.amount))))

toAtomic(self) == Outcome("none", self, StringValue(BigIntToString(self.amount)))

toFormats(self) ==
    Outcome("none", self, FormatsValue(toAtomic(self).ret.str, toDecimal(self).ret.dec))

\* ------------------------------------------------------------ LocalStore

\* A Map: its entries [key, record] in insertion order
MapHas(map, key) == \E i \in 1..Len(map) : map[i].key = key

\* the record of the first entry with the key
MapGet(map, key) ==
    map[CHOOSE i \in 1..Len(map) :
            map[i].key = key /\ \A j \in 1..(i - 1) : map[j].key # key].record

\* a set that adds an entry whether or not the key has one
MapSetAppend(map, key, record) == Append(map, [key |-> key, record |-> record])

\* Map.prototype.set: the record of an existing key is replaced in place
MapSet(map, key, record) ==
    IF MapHas(map, key)
    THEN [i \in 1..Len(map) |->
             IF map[i].key = key THEN [key |-> key, record |-> record] ELSE map[i]]
    ELSE Append(map, [key |-> key, record |-> record])

MapDelete(map, key) == SelectSeq(map, LAMBDA e : e.key # key)

CacheRecord(value, expireAt) == [value |-> value, expireAt |-> expireAt]

\* what get returns for no value, and what a void method returns
Null == "null"

Void == "undefined"

\* an optional ttl argument: left out, or a number of milliseconds
NoTtl == [given |-> FALSE, ms |-> 0]

Ttl(ms) == [given |-> TRUE, ms |-> ms]

\* the outcome of a call on the store: the cache afterwards and the value returned
StoreOutcome(c, r) == [cache |-> c, ret |-> r]

\* constructor(private defaultTtl: number = 60_000): the property's value
newLocalStore(ttl) == IF ttl.given THEN ttl.ms ELSE 60000

\* add(key, value, ttl = this.defaultTtl) at time t
storeAdd(map, dflt, t, key, value, ttlArg) ==
    LET ttl == IF ttlArg.given THEN ttlArg.ms ELSE dflt
        expireAt == t + ttl
    IN StoreOutcome(MapSet(map, key, CacheRecord(value, expireAt)), Void)

\* get(key) at time t
storeGet(map, t, key) ==
    IF ~MapHas(map, key) THEN StoreOutcome(map, Null)
    ELSE LET record == MapGet(map, key) IN
         IF t > record.expireAt THEN StoreOutcome(MapDelete(map, key), Null)
         ELSE StoreOutcome(map, record.value)

\* exist(key) at time t
storeExist(map, t, key) ==
    IF ~MapHas(map, key) THEN StoreOutcome(map, "false")
    ELSE LET record == MapGet(map, key)
             isValid == t <= record.expireAt
         IN StoreOutcome(IF ~isValid THEN MapDelete(map, key) ELSE map,
                         IF isValid THEN "true" ELSE "false")

\* remove(key)
storeRemove(map, key) == StoreOutcome(MapDelete(map, key), Void)

\* cleanup() at time t
storeCleanup(map, t) ==
    StoreOutcome(SelectSeq(map, LAMBDA e : ~(e.record.expireAt <= t)), Void)

\* ------------------------------------------------------------ BulkPromises
\* A function of the queue is [id, rejects]: it returns a promise that is
\* fulfilled with the value ResultOf(fn), or rejected if rejects is TRUE.

Fn(id, rejects) == [id |-> id, rejects |-> rejects]

ResultOf(fn) == fn.id

\* the optional argument of the constructor: left out, or an array
NoFunctions == [given |-> FALSE, fns |-> <<>>]

Functions(fns) == [given |-> TRUE, fns |-> fns]

\* constructor(initialFunctions?): the queue it leaves
newBulkPromises(initialFunctions) ==
    IF initialFunctions.given THEN initialFunctions.fns ELSE <<>>

\* add(fn): the queue afterwards
bulkAdd(fns, fn) == Append(fns, fn)

\* an addIf that does not look at its condition
bulkAddIfAlways(fns, condition, fn) == Append(fns, fn)

\* addIf(condition, fn): the queue afterwards
bulkAddIf(fns, condition, fn) == IF condition THEN Append(fns, fn) ELSE fns

\* a run that leaves the queue as it is
bulkRunKeeping(fns, at, n) ==
    [functions |-> fns,
     invoked |-> [i \in 1..Len(fns) |-> [fn |-> fns[i], run |-> n]],
     run |-> [at |-> at, jobs |-> fns, settled |-> {},
              state |-> IF Len(fns) = 0 THEN "fulfilled" ELSE "pending", result |-> <<>>]]

\* run(), the n-th, called as the at-th call: the queue it leaves, the
\* functions it invokes, in order, and the promise it returns.  With no jobs
\* the promise is fulfilled with []; otherwise it is Promise.all's, pending
\* until the jobs' promises settle.
bulkRun(fns, at, n) ==
    LET jobs == fns IN
    [functions |-> <<>>,
     invoked |-> [i \in 1..Len(jobs) |-> [fn |-> jobs[i], run |-> n]],
     run |-> [at |-> at, jobs |-> jobs, settled |-> {},
              state |-> IF Len(jobs) = 0 THEN "fulfilled" ELSE "pending", result |-> <<>>]]

\* Promise.all when the promise of job i settles: a rejection rejects it; the
\* last fulfilment fulfils it with the values in the order of the jobs
promiseAllSettle(run, i) ==
    IF run.jobs[i].rejects THEN [run EXCEPT !.settled = @ \cup {i}, !.state = "rejected"]
    ELSE IF run.settled \cup {i} = 1..Len(run.jobs)
    THEN [run EXCEPT !.settled = @ \cup {i}, !.state = "fulfilled",
                     !.result = [j \in 1..Len(run.jobs) |-> ResultOf(run.jobs[j])]]
    ELSE [run EXCEPT !.settled = @ \cup {i}]

\* ------------------------------------------------------------ dates
\* A Date is [day, ms]: the calendar day of its local time, counted from
\* 1970-01-01, and the millisecond of that day (a zone without clock
\* changes); getTime() is the pair, the timestamp being 86400000 * day + ms
\* plus the zone's offset.

\* the outcome of a function: the value returned, or the error thrown
Returned(value) == [err |-> "none", value |-> value]

Thrown(e) == [err |-> e, value |-> "none"]

Period == [Hour |-> "hour", Day |-> "day", Week |-> "week", Month |-> "month", Year |-> "year"]

\* MakeDay: the day number of the date-th day of the month (0 to 11) of
\* the year; date may lie outside the month and then counts on from it
MakeDay(year, month, date) ==
    LET y == IF month <= 1 THEN year - 1 ELSE year
        era == y \div 400
        yoe == y - era * 400
        mp == IF month > 1 THEN month - 2 ELSE month + 10
        doy == (153 * mp + 2) \div 5
        doe == yoe * 365 + yoe \div 4 - yoe \div 100 + doy
    IN era * 146097 + doe - 719468 + (date - 1)

\* YearFromTime, MonthFromTime, DateFromTime: the calendar date of a day number
Civil(day) ==
    LET z == day + 719468
        era == z \div 146097
        doe == z - era * 146097
        yoe == (doe - doe \div 1460 + doe \div 36524 - doe \div 146096) \div 365
        doy == doe - (365 * yoe + yoe \div 4 - yoe \div 100)
        mp == (5 * doy + 2) \div 153
        month == IF mp < 10 THEN mp + 2 ELSE mp - 10
    IN [year |-> yoe + era * 400 + (IF month <= 1 THEN 1 ELSE 0),
        month |-> month,
        date |-> doy - (153 * mp + 2) \div 5 + 1]

\* Date.prototype.getDay: 0 is Sunday; 1970-01-01 was a Thursday
getDay(d) == (d.day + 4) % 7

getDate(d) == Civil(d.day).date

setDate(d, date) == [d EXCEPT !.day = MakeDay(Civil(d.day).year, Civil(d.day).month, date)]

setMonth(d, month, date) == [d EXCEPT !.day = MakeDay(Civil(d.day).year, month, date)]

\* setHours(0, 0, 0, 0)
setHours(d) == [d EXCEPT !.ms = 0]

getStartOf(date, period) ==
    LET start == date IN
    IF period = Period.Day THEN Returned(setHours(start))
    ELSE IF period = Period.Week
    THEN LET dayOfWeek == getDay(start)
         IN Returned(setHours(setDate(start, getDate(start) - dayOfWeek)))
    ELSE IF period = Period.Month THEN Returned(setHours(setDate(start, 1)))
    ELSE IF period = Period.Year THEN Returned(setHours(setMonth(start, 0, 1)))
    ELSE Thrown("Error")

\* A date given to dayjs is [valid, t]: whether dayjs can read it, and its instant.
\* An optional boolean argument is [given, value].
\* validateDateRange(start, end, greaterNow = true) called at the instant clock
validateDateRange(start, end, greaterNowArg, clock) ==
    LET greaterNow == IF greaterNowArg.given THEN greaterNowArg.value ELSE TRUE IN
    IF ~start.valid \/ ~end.valid THEN Returned(FALSE)
    ELSE IF start.t > end.t THEN Returned(FALSE)
    ELSE IF greaterNow /\ (~(start.t > clock) \/ ~(end.t > clock)) THEN Returned(FALSE)
    ELSE Returned(TRUE)

\* ------------------------------------------------------------ chains

ChainId ==
    [Ethereum |-> 1, Optimism |-> 10, BSC |-> 56, Polygon |-> 137, Solana |-> 101,
     Base |-> 8453, Arbitrum |-> 42161, SolanaMainnetBeta |-> 101,
     Sepolia |-> 11155111, SolanaTestnet |-> 102, SolanaDevnet |-> 103]

AppEnv ==
    [Production |-> "prod", Stage |-> "stage", Testing |-> "test",
     Development |-> "dev", Local |-> "local"]

ChainValue ==
    [Ethereum |-> "eth", Optimism |-> "op", BSC |-> "bsc", Polygon |-> "polygon",
     Base |-> "base", Arbitrum |-> "arb"]

chainValueToIdMap ==
    << [key |-> ChainValue.Ethereum, record |-> ChainId.Ethereum],
       [key |-> ChainValue.Optimism, record |-> ChainId.Optimism],
       [key |-> ChainValue.BSC, record |-> ChainId.BSC],
       [key |-> ChainValue.Polygon, record |-> ChainId.Polygon],
       [key |-> ChainValue.Base, record |-> ChainId.Base],
       [key |-> ChainValue.Arbitrum, record |-> ChainId.Arbitrum] >>

chainIdToValueMap ==
    << [key |-> ChainId.Ethereum, record |-> ChainValue.Ethereum],
       [key |-> ChainId.Optimism, record |-> ChainValue.Optimism],
       [key |-> ChainId.BSC, record |-> ChainValue.BSC],
       [key |-> ChainId.Polygon, record |-> ChainValue.Polygon],
       [key |-> ChainId.Base, record |-> ChainValue.Base],
       [key |-> ChainId.Arbitrum, record |-> ChainValue.Arbitrum] >>

getChainIdByValue(value) ==
    IF MapHas(chainValueToIdMap, value) THEN Returned(MapGet(chainValueToIdMap, value))
    ELSE Thrown("Error")

\* a lookup that returns undefined for an id without a value
getChainValueByIdOrUndefined(id) ==
    IF MapHas(chainIdToValueMap, id) THEN Returned(MapGet(chainIdToValueMap, id))
    ELSE Returned("undefined")

getChainValueById(id) ==
    IF MapHas(chainIdToValueMap, id) THEN Returned(MapGet(chainIdToValueMap, id))
    ELSE Thrown("Error")

isAvailableChain(chainId, env) ==
    IF env = AppEnv.Production
    THEN Returned(chainId \in {ChainId.Arbitrum, ChainId.Ethereum, ChainId.BSC,
                               ChainId.Optimism, ChainId.Polygon, ChainId.Solana,
                               ChainId.SolanaMainnetBeta})
    ELSE Returned(chainId \in {ChainId.Sepolia, ChainId.SolanaDevnet, ChainId.SolanaTestnet})

\* ------------------------------------------------------------ browsers

\* String.prototype.includes with a string
includesString(s, pattern) ==
    \E i \in 1..(Len(s) - Len(pattern) + 1) : SubSeq(s, i, i + Len(pattern) - 1) = pattern

\* String.prototype.toLowerCase, on the letters A to Z
toLowerCase(s) ==
    LET upper == <<"A", "B", "C", "D", "E", "F", "G", "H", "I", "J", "K", "L", "M",
                   "N", "O", "P", "Q", "R", "S", "T", "U", "V", "W", "X", "Y", "Z">>
        lower == <<"a", "b", "c", "d", "e", "f", "g", "h", "i", "j", "k", "l", "m",
                   "n", "o", "p", "q", "r", "s", "t", "u", "v", "w", "x", "y", "z">>
    IN [i \in 1..Len(s) |->
           IF \E k \in 1..26 : upper[k] = s[i]
           THEN lower[CHOOSE k \in 1..26 : upper[k] = s[i]]
           ELSE s[i]]

Browser ==
    [Chrome |-> "chrome", Firefox |-> "firefox", Safari |-> "safari", Edge |-> "edge",
     Opera |-> "opera", InternetExplorer |-> "ie", Samsung |-> "samsung", UCBrowser |-> "uc",
     Yandex |-> "yandex", Brave |-> "brave", Vivaldi |-> "vivaldi", Other |-> "other"]

isBotUserAgent(userAgent) ==
    LET botPatterns ==
          {
            <<"b", "o", "t">>, <<"c", "r", "a", "w", "l", "e", "r">>,
            <<"s", "p", "i", "d", "e", "r">>, <<"s", "c", "r", "a", "p", "e", "r">>,
            <<"g", "o", "o", "g", "l", "e", "b", "o", "t">>,
            <<"b", "i", "n", "g", "b", "o", "t">>, <<"s", "l", "u", "r", "p">>,
            <<"d", "u", "c", "k", "d", "u", "c", "k", "b", "o", "t">>,
            <<"b", "a", "i", "d", "u", "s", "p", "i", "d", "e", "r">>,
            <<"y", "a", "n", "d", "e", "x", "b", "o", "t">>,
            <<"f", "a", "c", "e", "b", "o", "o", "k", "e", "x", "t", "e", "r", "n", "a", "l", "h", "i", "t">>,
            <<"t", "w", "i", "t", "t", "e", "r", "b", "o", "t">>,
            <<"r", "o", "g", "e", "r", "b", "o", "t">>,
            <<"l", "i", "n", "k", "e", "d", "i", "n", "b", "o", "t">>,
            <<"w", "h", "a", "t", "s", "a", "p", "p">>,
            <<"t", "e", "l", "e", "g", "r", "a", "m", "b", "o", "t">>,
            <<"a", "p", "p", "l", "e", "b", "o", "t">>,
            <<"d", "i", "s", "c", "o", "r", "d", "b", "o", "t">> }
    IN \E pattern \in botPatterns : includesString(userAgent, pattern)

\* getBrowser(userAgent?): the argument is [given, s].  The last rule, for
\* Internet Explorer, is an expression statement without a return: its
\* value is dropped and the function goes on to return Browser.Other.
getBrowser(userAgent) ==
    IF ~userAgent.given \/ userAgent.s = <<>> THEN Returned(Browser.Other)
    ELSE LET ua == toLowerCase(userAgent.s) IN
    IF isBotUserAgent(ua) THEN Returned(Browser.Other)
    ELSE IF includesString(ua, <<"e", "d", "g", "/">>) \/ includesString(ua, <<"e", "d", "g", "e", "/">>)
    THEN Returned(Browser.Edge)
    ELSE IF includesString(ua, <<"s", "a", "m", "s", "u", "n", "g", "b", "r", "o", "w", "s", "e", "r">>)
    THEN Returned(Browser.Samsung)
    ELSE IF includesString(ua, <<"y", "a", "b", "r", "o", "w", "s", "e", "r">>)
    THEN Returned(Browser.Yandex)
    ELSE IF includesString(ua, <<"o", "p", "r", "/">>) \/ includesString(ua, <<"o", "p", "e", "r", "a", "/">>)
    THEN Returned(Browser.Opera)
    ELSE IF includesString(ua, <<"v", "i", "v", "a", "l", "d", "i">>) THEN Returned(Browser.Vivaldi)
    ELSE IF includesString(ua, <<"b", "r", "a", "v", "e">>) THEN Returned(Browser.Brave)
    ELSE IF includesString(ua, <<"u", "c", "b", "r", "o", "w", "s", "e", "r">>)
    THEN Returned(Browser.UCBrowser)
    ELSE IF /\ includesString(ua, <<"c", "h", "r", "o", "m", "e", "/">>)
            /\ ~includesString(ua, <<"c", "h", "r", "o", "m", "i", "u", "m", "/">>)
    THEN Returned(Browser.Chrome)
    ELSE IF includesString(ua, <<"f", "i", "r", "e", "f", "o", "x", "/">>)
    THEN Returned(Browser.Firefox)
    ELSE IF /\ includesString(ua, <<"s", "a", "f", "a", "r", "i", "/">>)
            /\ ~includesString(ua, <<"c", "h", "r", "o", "m", "e", "/">>)
    THEN Returned(Browser.Safari)
    ELSE IF includesString(ua, <<"m", "s", "i", "e">>) \/ includesString(ua, <<"t", "r", "i", "d", "e", "n", "t", "/">>)
    THEN LET dropped == Browser.InternetExplorer IN Returned(Browser.Other)
    ELSE Returned(Browser.Other)

\* ------------------------------------------------------------ inputs

\* magnitude up to which an amount or an operand takes part in arithmetic
MaxAmount == 1000000

Signs == {<<>>, <<"-">>, <<"+">>}

IntParts == {<<>>, <<"0">>, <<"1">>, <<"1", "2">>}

FracTails == {<<>>, <<"5">>, <<"2", "5">>}

FracParts == {repeat("0", k) \o t : k \in 0..MaxZeros, t \in FracTails}

\* sign, digits, and possibly a point and more digits (each part may be empty)
NumeralStrings ==
    {sg \o ip : sg \in Signs, ip \in IntParts}
    \cup {sg \o ip \o <<".">> \o fp : sg \in Signs, ip \in IntParts, fp \in FracParts}

OtherStrings ==
    { <<"a", "b", "c">>, <<"1", ".", "2", ".", "3">>, <<"1", "a">>, <<"-", "-", "1">>,
      <<"1", "e", "5">>, <<"1", ".", "5", ".">>, <<"1", ".", ".", "5">>,
      <<"1", ".", "5", "a">>, <<"1", "0", ".", "0", "0">>, <<"2", ".", "0", "0">>,
      <<"1", ".", "2", "3">>, <<"-", "1", ".", "2", "3", "4", "5", "6">> }

Numbers ==
    {Fin(neg, m, n) : neg \in BOOLEAN, m \in {1, 5, 75, 125}, n \in (-MaxZeros..3) \cup {22}}
    \cup {Zero, NaN, Infinity}

BigInts == {0, 1, -1, 123, -500, 100000, 1000000000, -1000000000}

AmountInputs ==
    {Str(s) : s \in NumeralStrings \cup OtherStrings}
    \cup {NumV(x) : x \in Numbers}
    \cup {Big(n) : n \in BigInts}

\* the inputs of the instances that go on to arithmetic and comparisons
CtorInputs ==
    { Str(<<"1", "0", ".", "0", "0">>), Str(<<"2", ".", "0", "0">>), Str(<<"1", ".", "5">>),
      Str(<<"1", ".", "0">>), Str(<<"-", "0", ".", "7", "5">>),
      Str(<<"-", "0", ".", "0", "0", "0", "5">>), Str(<<"0", ".", "0", "0", "1">>),
      Str(<<"a", "b", "c">>), NumV(Fin(FALSE, 1, 3)), NumV(Zero),
      Big(0), Big(-7), Big(123), Big(1000000000) }

Codes == CurrencyCode \cup {"xyz"}

\* operands of add and subtract
Operands ==
    { Str(<<"0", ".", "5", "0">>), Str(<<"-", "0", ".", "0", "0", "0", "5">>),
      Str(<<"a", "b", "c">>), NumV(Fin(FALSE, 75, 0)), NumV(Fin(FALSE, 1, -6)), Big(3) }

\* operands of the comparisons
CompareOperands ==
    { Str(<<"1", ".", "0">>), Str(<<"a", "b", "c">>), NumV(Fin(FALSE, 75, 0)), Big(-2) }

Factors ==
    { Fin(FALSE, 2, 1), Fin(FALSE, 5, 0), Fin(FALSE, 15, 1), Fin(TRUE, 1, 1),
      Zero, NaN, Infinity }

Divisors ==
    { Fin(FALSE, 2, 1), Fin(FALSE, 4, 1), Fin(TRUE, 2, 1), Fin(FALSE, 5, 0),
      Zero, Infinity }

\* The model's integers are 32-bit: an input takes part only when the digits
\* parseInput hands to BigInt stay below 2 * 10^9.
InRange(value, currency) ==
    \/ value.type = "bigint"
    \/ LET str == IF value.type = "number" THEN NumberToString(value.x) ELSE value.s
           body == IF str # <<>> /\ str[1] \in {"-", "+"} THEN Tail(str) ELSE str
           ip == DigitPrefix(body)
       IN \/ Len(ip) + currency.decimals < 10
          \/ Len(ip) + currency.decimals = 10 /\ ip[1] \in {"0", "1"}

\* an operand whose parsed value is small enough for the arithmetic of the model
Small(value, currency) ==
    /\ InRange(value, currency)
    /\ LET p == parseInput(value, currency) IN p.ok => Abs(p.val) <= MaxAmount

NoArg == Str(<<>>)

\* number of times the clock advances in a behaviour
MaxTicks == 2

\* number of method calls on a store in a behaviour
MaxCalls == 3

Keys == {"k1", "k2"}

StoreValues == {"v1", "v2"}

\* the constructor's argument: none, or a default of 2 ms
CtorTtls == {NoTtl, Ttl(2)}

\* the ttl argument of add: none, or 1 ms
AddTtls == {NoTtl, Ttl(1)}

\* by how much the clock advances at once: a millisecond or a minute
Steps == {1, 60000}

NoAdd == [set |-> FALSE, at |-> 0, ttl |-> NoTtl, value |-> "", swept |-> FALSE,
          replaced |-> "none"]

\* number of add, addIf and run calls on a BulkPromises in a behaviour
MaxBulkCalls == 4

\* the function a call passes: a new one, which fulfils or rejects
NewFns(rejections) == {Fn(Len(history) + 1, r) : r \in rejections}

InitialFunctions ==
    { NoFunctions, Functions(<<>>), Functions(<<Fn(1, FALSE)>>),
      Functions(<<Fn(1, FALSE), Fn(0, FALSE)>>), Functions(<<Fn(1, TRUE), Fn(0, FALSE)>>) }

NoFn == Fn(-1, FALSE)

\* number of days, from 2023-12-25 on, that the dates of the model lie in
MaxDays == 75

\* midnight, a millisecond after and before it, and 15:45:30
Dates ==
    {[day |-> MakeDay(2023, 11, 25) + k, ms |-> ms] :
        k \in 0..(MaxDays - 1), ms \in {0, 1, 56730000, 86399999}}

Periods == {Period[p] : p \in DOMAIN Period}

\* the latest instant of the dates and of the clock of validateDateRange
MaxInstant == 3

RangeDates ==
    {[valid |-> FALSE, t |-> 0]} \cup {[valid |-> TRUE, t |-> t] : t \in 0..MaxInstant}

OptionalBooleans ==
    {[given |-> FALSE, value |-> FALSE]} \cup {[given |-> TRUE, value |-> b] : b \in BOOLEAN}

ChainIds == {ChainId[c] : c \in DOMAIN ChainId}

AppEnvs == {AppEnv[e] : e \in DOMAIN AppEnv}

\* number of product tokens in a user agent of the model
MaxTokens == 3

\* the product tokens user agents are made of
UserAgentTokens ==
    <<
      <<"M", "o", "z", "i", "l", "l", "a", "/", "5", ".", "0">>,
      <<"M", "S", "I", "E", " ", "1", "0", ".", "0">>,
      <<"T", "r", "i", "d", "e", "n", "t", "/", "7", ".", "0">>,
      <<"E", "d", "g", "/", "9", "1">>, <<"E", "d", "g", "e", "/", "1", "8">>,
      <<"C", "h", "r", "o", "m", "e", "/", "9", "1">>,
      <<"C", "h", "r", "o", "m", "i", "u", "m", "/", "9", "0">>,
      <<"S", "a", "f", "a", "r", "i", "/", "5", "3", "7">>,
      <<"F", "i", "r", "e", "f", "o", "x", "/", "8", "9">>,
      <<"S", "a", "m", "s", "u", "n", "g", "B", "r", "o", "w", "s", "e", "r", "/", "1", "4">>,
      <<"Y", "a", "B", "r", "o", "w", "s", "e", "r", "/", "2", "1">>,
      <<"O", "P", "R", "/", "7", "7">>, <<"V", "i", "v", "a", "l", "d", "i", "/", "4">>,
      <<"B", "r", "a", "v", "e">>,
      <<"U", "C", "B", "r", "o", "w", "s", "e", "r", "/", "1", "3">>,
      <<"G", "o", "o", "g", "l", "e", "b", "o", "t", "/", "2", ".", "1">>,
      <<"W", "h", "a", "t", "s", "A", "p", "p", "/", "2">> >>

RECURSIVE JoinTokens(_)

\* the tokens with the numbers in S, in the order of the numbers, separated by spaces
JoinTokens(S) ==
    IF S = {} THEN <<>>
    ELSE LET k == CHOOSE n \in S : \A m \in S : n <= m
         IN IF S = {k} THEN UserAgentTokens[k]
            ELSE UserAgentTokens[k] \o <<" ">> \o JoinTokens(S \ {k})

\* no user agent, the empty one, and those of up to MaxTokens tokens
UserAgents ==
    {[given |-> FALSE, s |-> <<>>]}
    \cup {[given |-> TRUE, s |-> JoinTokens(S)] :
             S \in {X \in SUBSET (1..Len(UserAgentTokens)) : Cardinality(X) <= MaxTokens}}

\* ------------------------------------------------------------ behaviour

Init ==
    /\ inst = NoInstance
    /\ call = [op |-> "none", arg |-> NoArg, code |-> ""]
    /\ ret = NoValue
    /\ err = "none"
    /\ prev = NoInstance
    /\ nops = 0
    /\ chain = [base |-> 0, sum |-> 0]
    /\ cache = <<>>
    /\ defaultTtl = 0
    /\ now = 0
    /\ storeCall = [op |-> "none", key |-> "", value |-> "", ttl |-> NoTtl]
    /\ storeRet = Void
    /\ lastAdd = [k \in Keys |-> NoAdd]
    /\ ticks = 0
    /\ calls = 0
    /\ functions = <<>>
    /\ runs = <<>>
    /\ invoked = <<>>
    /\ history = <<>>
    /\ utilCall = [fn |-> "none", args |-> <<>>]
    /\ utilRet = Returned(FALSE)

\* the chain of add/subtract calls after a call: it grows by the operand an
\* add or subtract parsed, and begins again at any other change of the amount
ChainAfter(op, arg, out) ==
    IF out.err # "none" THEN chain
    ELSE IF op = "add"
    THEN [chain EXCEPT !.sum = @ + parseInput(arg, inst.currency).val]
    ELSE IF op = "subtract"
    THEN [chain EXCEPT !.sum = @ - parseInput(arg, inst.currency).val]
    ELSE IF op \in {"constructor", "multiply", "divide"}
    THEN [base |-> out.inst.amount, sum |-> 0]
    ELSE chain

\* the effect of a call with the given outcome
Apply(op, arg, code, out) ==
    /\ inst' = out.inst
    /\ call' = [op |-> op, arg |-> arg, code |-> code]
    /\ ret' = out.ret
    /\ err' = out.err
    /\ prev' = inst
    /\ nops' = IF op = "constructor" THEN 0 ELSE nops + 1
    /\ chain' = ChainAfter(op, arg, out)
    /\ UNCHANGED <<storeVars, bulkVars, utilVars>>

Callable == inst.live /\ nops < MaxOps

Mutable == Callable /\ Abs(inst.amount) <= MaxAmount

\* currencyAmount(input, code), the first call of a behaviour
ConstructFrom(inputs) ==
    /\ call.op = "none"
    /\ \E input \in inputs, code \in Codes :
          /\ InRange(input, currencyMapGet(code))
          /\ Apply("constructor", input, code, currencyAmount(input, code))

Construct == ConstructFrom(CtorInputs)

ConstructAny == ConstructFrom(AmountInputs)

Add ==
    /\ Mutable
    /\ \E v \in Operands : Small(v, inst.currency) /\ Apply("add", v, "", add(inst, v))

Subtract ==
    /\ Mutable
    /\ \E v \in Operands : Small(v, inst.currency) /\ Apply("subtract", v, "", subtract(inst, v))

Multiply ==
    /\ Mutable
    /\ \E f \in Factors : Apply("multiply", NumV(f), "", multiply(inst, f))

Divide ==
    /\ Mutable
    /\ \E d \in Divisors : Apply("divide", NumV(d), "", divide(inst, d))

Lt ==
    /\ Callable
    /\ \E v \in CompareOperands : Small(v, inst.currency) /\ Apply("lt", v, "", lt(inst, v))

Lte ==
    /\ Callable
    /\ \E v \in CompareOperands : Small(v, inst.currency) /\ Apply("lte", v, "", lte(inst, v))

Gt ==
    /\ Callable
    /\ \E v \in CompareOperands : Small(v, inst.currency) /\ Apply("gt", v, "", gt(inst, v))

Gte ==
    /\ Callable
    /\ \E v \in CompareOperands : Small(v, inst.currency) /\ Apply("gte", v, "", gte(inst, v))

IsPositive == Callable /\ Apply("isPositive", NoArg, "", isPositive(inst))

ToDecimal == Callable /\ Apply("toDecimal", NoArg, "", toDecimal(inst))

ToAtomic == Callable /\ Apply("toAtomic", NoArg, "", toAtomic(inst))

ToFormats == Callable /\ Apply("toFormats", NoArg, "", toFormats(inst))

Next ==
    \/ Construct
    \/ Add
    \/ Subtract
    \/ Multiply
    \/ Divide
    \/ Lt
    \/ Lte
    \/ Gt
    \/ Gte
    \/ IsPositive
    \/ ToDecimal
    \/ ToAtomic
    \/ ToFormats

Spec == Init /\ [][Next]_vars

\* construction from every input of the model, and the formatting methods
NextParse ==
    \/ ConstructAny
    \/ ToDecimal
    \/ ToAtomic
    \/ ToFormats

SpecParse == Init /\ [][NextParse]_vars

\* ------------------------------------------------------------ LocalStore behaviour

\* what the ghost lastAdd holds after a call: an add of the key records the
\* time, the ttl argument, the value and what it replaced (a record that had
\* expired, one that was to expire later than the new one, another or none); a remove of
\* the key forgets it; a cleanup marks the keys whose record it deleted at
\* the very millisecond of its expireAt
LastAddAfter(op, key, value, ttl, out) ==
    IF op = "add"
    THEN [lastAdd EXCEPT ![key] =
             [set |-> TRUE, at |-> now, ttl |-> ttl, value |-> value, swept |-> FALSE,
              replaced |-> IF ~MapHas(cache, key) THEN "none"
                           ELSE IF MapGet(cache, key).expireAt < now THEN "expired"
                           ELSE IF MapGet(cache, key).expireAt > MapGet(out.cache, key).expireAt
                           THEN "longer"
                           ELSE "other"]]
    ELSE IF op = "remove" THEN [lastAdd EXCEPT ![key] = NoAdd]
    ELSE IF op = "cleanup"
    THEN [k \in Keys |->
             IF /\ lastAdd[k].set /\ MapHas(cache, k) /\ ~MapHas(out.cache, k)
                /\ MapGet(cache, k).expireAt = now
             THEN [lastAdd[k] EXCEPT !.swept = TRUE]
             ELSE lastAdd[k]]
    ELSE lastAdd

\* the effect of a call on the store with the given outcome
StoreApply(op, key, value, ttl, out) ==
    /\ cache' = out.cache
    /\ storeCall' = [op |-> op, key |-> key, value |-> value, ttl |-> ttl]
    /\ storeRet' = out.ret
    /\ lastAdd' = LastAddAfter(op, key, value, ttl, out)
    /\ calls' = calls + 1
    /\ UNCHANGED <<defaultTtl, now, ticks>>
    /\ UNCHANGED <<curVars, bulkVars, utilVars>>

StoreLive == storeCall.op # "none" /\ calls < MaxCalls

\* new LocalStore() or new LocalStore(ttl), the first call of a behaviour
NewLocalStore ==
    /\ storeCall.op = "none"
    /\ \E ttl \in CtorTtls :
          /\ defaultTtl' = newLocalStore(ttl)
          /\ cache' = <<>>
          /\ storeCall' = [op |-> "constructor", key |-> "", value |-> "", ttl |-> ttl]
          /\ storeRet' = Void
          /\ UNCHANGED <<now, lastAdd, ticks, calls>>
          /\ UNCHANGED <<curVars, bulkVars, utilVars>>

StoreAdd ==
    /\ StoreLive
    /\ \E key \in Keys, value \in StoreValues, ttl \in AddTtls :
          StoreApply("add", key, value, ttl, storeAdd(cache, defaultTtl, now, key, value, ttl))

StoreGet ==
    /\ StoreLive
    /\ \E key \in Keys : StoreApply("get", key, "", NoTtl, storeGet(cache, now, key))

StoreExist ==
    /\ StoreLive
    /\ \E key \in Keys : StoreApply("exist", key, "", NoTtl, storeExist(cache, now, key))

StoreRemove ==
    /\ StoreLive
    /\ \E key \in Keys : StoreApply("remove", key, "", NoTtl, storeRemove(cache, key))

StoreCleanup == StoreLive /\ StoreApply("cleanup", "", "", NoTtl, storeCleanup(cache, now))

\* time passes: Date.now() grows
Tick ==
    /\ storeCall.op # "none"
    /\ ticks < MaxTicks
    /\ \E d \in Steps : now' = now + d
    /\ ticks' = ticks + 1
    /\ storeCall' = [op |-> "tick", key |-> "", value |-> "", ttl |-> NoTtl]
    /\ storeRet' = Void
    /\ UNCHANGED <<cache, defaultTtl, lastAdd, calls>>
    /\ UNCHANGED <<curVars, bulkVars, utilVars>>

NextStore ==
    \/ NewLocalStore
    \/ StoreAdd
    \/ StoreGet
    \/ StoreExist
    \/ StoreRemove
    \/ StoreCleanup
    \/ Tick

SpecStore == Init /\ [][NextStore]_vars

\* ------------------------------------------------------------ BulkPromises behaviour

HistoryEntry(op, init, condition, fn) ==
    [op |-> op, init |-> init, condition |-> condition, fn |-> fn]

BulkLive == history # <<>> /\ Len(history) <= MaxBulkCalls

\* new BulkPromises() or new BulkPromises(initialFunctions), the first call of a behaviour
NewBulkPromises ==
    /\ history = <<>>
    /\ \E init \in InitialFunctions :
          /\ functions' = newBulkPromises(init)
          /\ history' = <<HistoryEntry("constructor", init, FALSE, NoFn)>>
    /\ UNCHANGED <<runs, invoked>>
    /\ UNCHANGED <<curVars, storeVars, utilVars>>

BulkAdd ==
    /\ BulkLive
    /\ \E fn \in NewFns(BOOLEAN) :
          /\ functions' = bulkAdd(functions, fn)
          /\ history' = Append(history, HistoryEntry("add", NoFunctions, FALSE, fn))
    /\ UNCHANGED <<runs, invoked>>
    /\ UNCHANGED <<curVars, storeVars, utilVars>>

BulkAddIf ==
    /\ BulkLive
    /\ \E condition \in BOOLEAN, fn \in NewFns({FALSE}) :
          /\ functions' = bulkAddIf(functions, condition, fn)
          /\ history' = Append(history, HistoryEntry("addIf", NoFunctions, condition, fn))
    /\ UNCHANGED <<runs, invoked>>
    /\ UNCHANGED <<curVars, storeVars, utilVars>>

BulkRun ==
    /\ BulkLive
    /\ LET out == bulkRun(functions, Len(history) + 1, Len(runs) + 1) IN
          /\ functions' = out.functions
          /\ invoked' = invoked \o out.invoked
          /\ runs' = Append(runs, out.run)
    /\ history' = Append(history, HistoryEntry("run", NoFunctions, FALSE, NoFn))
    /\ UNCHANGED <<curVars, storeVars, utilVars>>

\* the promise of a job of a pending run settles
Settle ==
    /\ \E n \in 1..Len(runs) :
          /\ runs[n].state = "pending"
          /\ \E i \in (1..Len(runs[n].jobs)) \ runs[n].settled :
                runs' = [runs EXCEPT ![n] = promiseAllSettle(runs[n], i)]
    /\ UNCHANGED <<functions, invoked, history>>
    /\ UNCHANGED <<curVars, storeVars, utilVars>>

NextBulk ==
    \/ NewBulkPromises
    \/ BulkAdd
    \/ BulkAddIf
    \/ BulkRun
    \/ Settle

SpecBulk == Init /\ [][NextBulk]_vars

\* ------------------------------------------------------------ function calls

\* the effect of a call of a function with the given outcome; a behaviour
\* makes one call
UtilApply(fn, args, out) ==
    /\ utilCall.fn = "none"
    /\ utilCall' = [fn |-> fn, args |-> args]
    /\ utilRet' = out
    /\ UNCHANGED <<curVars, storeVars, bulkVars>>

GetStartOf ==
    \E date \in Dates, period \in Periods :
        UtilApply("getStartOf", [date |-> date, period |-> period], getStartOf(date, period))

ValidateDateRange ==
    \E start \in RangeDates, end \in RangeDates, greaterNow \in OptionalBooleans,
       clock \in 0..MaxInstant :
        UtilApply("validateDateRange",
                  [start |-> start, end |-> end, greaterNow |-> greaterNow, clock |-> clock],
                  validateDateRange(start, end, greaterNow, clock))

IsAvailableChain ==
    \E chainId \in ChainIds, env \in AppEnvs :
        UtilApply("isAvailableChain", [chainId |-> chainId, env |-> env],
                  isAvailableChain(chainId, env))

\* the values of ChainValue, and two strings that are none
GetChainIdByValue ==
    \E value \in {ChainValue[v] : v \in DOMAIN ChainValue} \cup {"sol", ""} :
        UtilApply("getChainIdByValue", [value |-> value], getChainIdByValue(value))

\* the values of ChainId, and two numbers that are none
GetChainValueById ==
    \E id \in ChainIds \cup {0, 5} :
        UtilApply("getChainValueById", [id |-> id], getChainValueById(id))

GetBrowser ==
    \E userAgent \in UserAgents :
        UtilApply("getBrowser", [userAgent |-> userAgent], getBrowser(userAgent))

NextUtils ==
    \/ GetStartOf
    \/ ValidateDateRange
    \/ IsAvailableChain
    \/ GetChainIdByValue
    \/ GetChainValueById
    \/ GetBrowser

SpecUtils == Init /\ [][NextUtils]_vars

\* ------------------------------------------------------------ decimal values
\* What an input means as a decimal value, defined on the digits and not by
\* the string operations of parseInput.

Unsigned(s) == IF s # <<>> /\ s[1] \in {"-", "+"} THEN Tail(s) ELSE s

\* an optional sign, digits and at most one decimal point, with a digit somewhere
WellFormed(s) ==
    LET b == Unsigned(s) IN
    /\ \A i \in 1..Len(b) : IsDigit(b[i]) \/ b[i] = "."
    /\ Cardinality({i \in 1..Len(b) : b[i] = "."}) <= 1
    /\ \E i \in 1..Len(b) : IsDigit(b[i])

DotAt(b) == IF includes(b, ".") THEN CHOOSE i \in 1..Len(b) : b[i] = "." ELSE Len(b) + 1

IntDigits(s) == SubSeq(Unsigned(s), 1, DotAt(Unsigned(s)) - 1)

FracDigits(s) == SubSeq(Unsigned(s), DotAt(Unsigned(s)) + 1, Len(Unsigned(s)))

\* the input is a decimal value: a well-formed numeral or a finite number
IsDecimal(v) ==
    \/ v.type = "string" /\ WellFormed(v.s)
    \/ v.type = "number" /\ v.x.kind \in {"fin", "zero"}

\* the number of fractional digits of a decimal value
FracLen(v) ==
    IF v.type = "string" THEN Len(FracDigits(v.s))
    ELSE IF v.x.kind = "zero" THEN 0
    ELSE LET k == Len(NatToString(v.x.m)) IN IF k > v.x.n THEN k - v.x.n ELSE 0

\* m / 10^e rounded toward zero, for m >= 0
ShiftDown(m, e) == IF e > 9 THEN 0 ELSE m \div Pow10(e)

\* the decimal value times 10^d, cut toward zero to an integer
Scaled(v, d) ==
    IF v.type = "string"
    THEN LET fp == FracDigits(v.s)
             frac == IF Len(fp) <= d THEN DigitsValue(fp) * Pow10(d - Len(fp))
                     ELSE ShiftDown(DigitsValue(fp), Len(fp) - d)
         IN (IF v.s[1] = "-" THEN -1 ELSE 1) * (DigitsValue(IntDigits(v.s)) * Pow10(d) + frac)
    ELSE IF v.x.kind = "zero" THEN 0
    ELSE LET e == v.x.n - Len(NatToString(v.x.m)) + d
         IN (IF v.x.neg THEN -1 ELSE 1)
            * (IF e >= 0 THEN v.x.m * Pow10(e) ELSE ShiftDown(v.x.m, -e))

\* the input can be read: a bigint, a well-formed numeral, or a number
\* whose text is in plain notation (0, or 1e-6 <= |x| < 1e21)
Readable(v) ==
    \/ v.type = "bigint"
    \/ v.type = "string" /\ WellFormed(v.s)
    \/ v.type = "number" /\ v.x.kind = "zero"
    \/ v.type = "number" /\ v.x.kind = "fin" /\ -6 < v.x.n /\ v.x.n <= 21

\* the number dec equals num / 10^scale
DecEquals(dec, num, scale) ==
    ~dec.nan /\ dec.num * Pow10(scale) = num * Pow10(dec.scale)

\* the last call constructed (or failed to construct) an instance of a registered currency
Constructed == call.op = "constructor" /\ call.code \in CurrencyCode

Decimals == currencyMap[call.code].decimals

\* ------------------------------------------------------------ claims

\* C1: for every registered currency with d decimals and every decimal value
\* x written with at most d fractional digits, positive, zero or negative,
\* currencyAmount(x, c).toDecimal() equals x.
C1_RoundTrip ==
    (Constructed /\ err = "none" /\ IsDecimal(call.arg) /\ FracLen(call.arg) <= Decimals)
        => LET dec == toDecimal(inst).ret.dec
           IN ~dec.nan /\ dec.num * Pow10(Decimals - dec.scale) = Scaled(call.arg, Decimals)

\* C1 holds of every amount that is not a negative one of fewer digits than
\* the decimals (formatHuman pads those on the wrong side of the sign).
C1_RoundTripUnlessSmallNegative ==
    ( /\ Constructed /\ err = "none" /\ IsDecimal(call.arg)
      /\ FracLen(call.arg) <= Decimals
      /\ (inst.amount >= 0 \/ -inst.amount >= Pow10(Decimals - 1)) )
        => LET dec == toDecimal(inst).ret.dec
           IN ~dec.nan /\ dec.num * Pow10(Decimals - dec.scale) = Scaled(call.arg, Decimals)

\* C2: for every registered currency, construction from a string that is not
\* a well-formed decimal numeral fails with an error and produces no object.
C2_MalformedRejected ==
    (Constructed /\ call.arg.type = "string" /\ ~WellFormed(call.arg.s))
        => (err # "none" /\ ~inst.live)

\* C3: currencyAmount with a code that has no entry in the registry throws
\* for every input (string, number or bigint) and produces no object.
C3_UnknownCodeThrows ==
    (call.op = "constructor" /\ call.code \notin CurrencyCode)
        => (err = "Error" /\ inst = NoInstance /\ ret = NoValue)

C3_Witness ==
    /\ call.op = "constructor" /\ call.code = "xyz"
    /\ call.arg = Str(<<"1", ".", "2", "3">>)
    /\ err = "Error" /\ ~inst.live

\* C4: for a string or number input with at most d fractional digits the
\* stored atomic value is the input times 10^d exactly, for fiat and crypto.
C4_ExactScaling ==
    (Constructed /\ IsDecimal(call.arg) /\ FracLen(call.arg) <= Decimals)
        => (err = "none" /\ inst.amount = Scaled(call.arg, Decimals))

\* C5: for a decimal input with more than d fractional digits the digits
\* beyond the d-th are dropped: the atomic value is that of the input cut
\* toward zero to d fractional digits, for positive and negative inputs.
C5_Truncation ==
    (Constructed /\ IsDecimal(call.arg) /\ FracLen(call.arg) > Decimals)
        => (err = "none" /\ inst.amount = Scaled(call.arg, Decimals))

\* C4 and C5 hold of every numeral string and of every number whose text is
\* in plain notation: only exponent notation is not read.
C4_ExactScalingOfPlainText ==
    (Constructed /\ IsDecimal(call.arg) /\ Readable(call.arg) /\ FracLen(call.arg) <= Decimals)
        => (err = "none" /\ inst.amount = Scaled(call.arg, Decimals))

C5_TruncationOfPlainText ==
    (Constructed /\ IsDecimal(call.arg) /\ Readable(call.arg) /\ FracLen(call.arg) > Decimals)
        => (err = "none" /\ inst.amount = Scaled(call.arg, Decimals))

\* the string s is the decimal text of n: it reads back as n and has no sign
\* or zero it does not need
DecimalTextOf(s, n) ==
    /\ BigInt(s).ok /\ BigInt(s).val = n
    /\ s # <<>> /\ s[1] # "+" /\ (s[1] = "-" <=> n < 0)
    /\ Len(Unsigned(s)) > 1 => Unsigned(s)[1] # "0"

\* C6: a bigint input is atomic units and is stored unchanged, with no
\* scaling by the decimals: toAtomic() after currencyAmount(n, c) is the
\* decimal text of n; the same for a bigint argument of add, subtract and
\* the comparisons.
C6_BigIntUnscaled ==
    call.arg.type = "bigint" =>
        /\ Constructed =>
              /\ err = "none" /\ inst.amount = call.arg.n
              /\ DecimalTextOf(toAtomic(inst).ret.str, call.arg.n)
        /\ call.op = "add" => (err = "none" /\ inst.amount = prev.amount + call.arg.n)
        /\ call.op = "subtract" => (err = "none" /\ inst.amount = prev.amount - call.arg.n)
        /\ call.op = "lt" => ret = BoolValue(prev.amount < call.arg.n)
        /\ call.op = "lte" => ret = BoolValue(prev.amount <= call.arg.n)
        /\ call.op = "gt" => ret = BoolValue(prev.amount > call.arg.n)
        /\ call.op = "gte" => ret = BoolValue(prev.amount >= call.arg.n)

C6_Witness ==
    /\ call.op = "add" /\ call.arg = Big(3) /\ err = "none"
    /\ prev.currency.code = "sol" /\ prev.amount = -7 /\ inst.amount = -4

\* C7: the registry gives usd 2 decimals, so
\* currencyAmount('1.23', 'usd').toAtomic() is '123'.
C7_UsdTwoDecimals ==
    (Constructed /\ call.code = "usd" /\ call.arg = Str(<<"1", ".", "2", "3">>))
        => /\ err = "none"
           /\ inst.currency.decimals = 2
           /\ toAtomic(inst).ret.str = <<"1", "2", "3">>

\* C8: add(v) changes the amount a to a + P(v) and subtract(v) to a - P(v),
\* P being the parsing of construction with the instance's own currency;
\* both return the same instance; after a chain of add/subtract calls the
\* amount is the initial amount plus the signed sum of the parsed operands;
\* 10.00 usd add '0.50' is 10.5, 2.00 usd subtract 0.75 is 1.25.
C8_AddSubtract ==
    /\ (call.op \in {"add", "subtract"} /\ err = "none") =>
          LET P == parseInput(call.arg, prev.currency).val IN
          /\ IsDecimal(call.arg) => P = Scaled(call.arg, prev.currency.decimals)
          /\ call.arg.type = "bigint" => P = call.arg.n
          /\ inst.amount = prev.amount + (IF call.op = "add" THEN P ELSE -P)
          /\ inst.currency = prev.currency
          /\ ret = This
    /\ inst.live => inst.amount = chain.base + chain.sum
    /\ ( /\ call.op = "add" /\ call.arg = Str(<<"0", ".", "5", "0">>)
         /\ prev = constructor(Str(<<"1", "0", ".", "0", "0">>), "usd").inst )
          => DecEquals(toDecimal(inst).ret.dec, 105, 1)
    /\ ( /\ call.op = "subtract" /\ call.arg = NumV(Fin(FALSE, 75, 0))
         /\ prev = constructor(Str(<<"2", ".", "0", "0">>), "usd").inst )
          => DecEquals(toDecimal(inst).ret.dec, 125, 2)

C8_Witness ==
    /\ call.op = "subtract" /\ call.arg = NumV(Fin(FALSE, 75, 0)) /\ err = "none"
    /\ nops = 2 /\ inst.currency.code = "usd"
    /\ chain.base = 100000 /\ chain.sum = 5000 - 7500 /\ inst.amount = 97500

Arithmetic == {"add", "subtract", "multiply", "divide"}

\* C9: once constructed, every later add, subtract, multiply or divide
\* completes without raising an error, for any argument of the accepted
\* types (including divide(0) and a string operand of add/subtract).
C9_NeverRaises == call.op \in Arithmetic => err = "none"

\* C9 as amended: add and subtract complete without error unless the operand
\* fails to parse, and multiply and divide unless the product or quotient is
\* not a finite number (multiply by NaN or an infinity, divide by 0 or NaN);
\* then the call throws (a SyntaxError, a RangeError) and the instance is as
\* before.  Bigints and well-formed numerals always parse; a number parses
\* exactly when its text is in plain notation.
C9_RaisesOnlyOnBadArgument ==
    /\ call.op \in {"add", "subtract"} =>
          /\ err = "none" <=> parseInput(call.arg, prev.currency).ok
          /\ Readable(call.arg) => err = "none"
          /\ call.arg.type = "number" => (err = "none" <=> Readable(call.arg))
          /\ err # "none" => (err = "SyntaxError" /\ inst = prev)
    /\ call.op = "multiply" =>
          /\ err = "none" <=> call.arg.x.kind \in {"fin", "zero"}
          /\ err # "none" => (err = "RangeError" /\ inst = prev)
    /\ call.op = "divide" =>
          /\ err = "none" <=> call.arg.x.kind \in {"fin", "inf"}
          /\ err # "none" => (err = "RangeError" /\ inst = prev)

C9_Witness ==
    /\ call.op = "divide" /\ call.arg.x.kind = "fin" /\ err = "none"
    /\ nops = 2 /\ inst.amount # prev.amount

\* C10: multiply(f) replaces the amount a by the integer nearest to a*f and
\* divide(d) by the integer nearest to a/d, for positive and negative
\* amounts; each returns the same instance and the amount stays an integer.
C10_RoundsToNearest ==
    /\ (call.op = "multiply" /\ err = "none") =>
          LET num == Numerator(call.arg.x)
              den == Denominator(call.arg.x)
          IN /\ 2 * Abs(inst.amount * den - prev.amount * num) <= den
             /\ inst.amount \in Int
             /\ ret = This
    /\ (call.op = "divide" /\ err = "none" /\ call.arg.x.kind = "fin") =>
          LET num == Numerator(call.arg.x)
              den == Denominator(call.arg.x)
          IN /\ 2 * Abs(inst.amount * num - prev.amount * den) <= Abs(num)
             /\ inst.amount \in Int
             /\ ret = This

C10_Witness ==
    /\ call.op = "multiply" /\ call.arg = NumV(Fin(FALSE, 5, 0)) /\ err = "none"
    /\ prev.amount = -5 /\ inst.amount = -2

Comparisons == {"lt", "lte", "gt", "gte"}

\* C11: lt, lte, gt and gte return exactly a < P, a <= P, a > P and a >= P,
\* where a is the amount of the instance and P is the argument parsed as the
\* constructor parses it for the instance's currency: a string or number is
\* a decimal amount scaled by the decimals, a bigint is atomic units; the
\* comparison raises exactly when that parsing raises.  So 1.5 usd is
\* greater than "1.0" and 1.0 usd is at least "1.0".
C11_Comparisons ==
    /\ call.op \in Comparisons =>
          LET P == constructor(call.arg, prev.currency.code)
              a == prev.amount
          IN /\ err = "none" <=> P.err = "none"
             /\ err = "none" =>
                   /\ call.op = "lt" => ret = BoolValue(a < P.inst.amount)
                   /\ call.op = "lte" => ret = BoolValue(a <= P.inst.amount)
                   /\ call.op = "gt" => ret = BoolValue(a > P.inst.amount)
                   /\ call.op = "gte" => ret = BoolValue(a >= P.inst.amount)
                   /\ call.arg.type = "bigint" => P.inst.amount = call.arg.n
                   /\ call.arg.type # "bigint" =>
                         P.inst.amount = Scaled(call.arg, prev.currency.decimals)
    /\ gt(constructor(Str(<<"1", ".", "5">>), "usd").inst, Str(<<"1", ".", "0">>)).ret
          = BoolValue(TRUE)
    /\ gte(constructor(Str(<<"1", ".", "0">>), "usd").inst, Str(<<"1", ".", "0">>)).ret
          = BoolValue(TRUE)

C11_Witness ==
    /\ call.op = "gte" /\ call.arg = Str(<<"1", ".", "0">>) /\ err = "none"
    /\ prev.currency.code = "usd" /\ prev.amount = Scaled(call.arg, 4)
    /\ ret = BoolValue(TRUE)

\* C12: isPositive() is true exactly when the atomic amount is greater than
\* zero: true for 100 usd, false for 0 usd and for every negative amount.
C12_IsPositive ==
    /\ call.op = "isPositive" =>
          /\ err = "none"
          /\ ret = BoolValue(prev.amount > 0)
          /\ prev.amount <= 0 => ~ret.bool
    /\ isPositive(currencyAmount(NumV(Fin(FALSE, 1, 3)), "usd").inst).ret = BoolValue(TRUE)
    /\ isPositive(currencyAmount(NumV(Zero), "usd").inst).ret = BoolValue(FALSE)

C12_Witness ==
    /\ call.op = "isPositive" /\ prev.live /\ prev.amount = 0
    /\ ret = BoolValue(FALSE)

\* C13: toFormats() returns both formats of the same state: atomic is what
\* toAtomic() returns, the decimal text of the atomic integer with its sign
\* and without scaling, and decimal is what toDecimal() returns.
C13_ToFormats ==
    call.op = "toFormats" =>
        /\ err = "none" /\ inst = prev
        /\ ret.type = "formats"
        /\ ret.str = toAtomic(prev).ret.str
        /\ DecimalTextOf(ret.str, prev.amount)
        /\ ret.dec = toDecimal(prev).ret.dec

C13_Witness ==
    /\ call.op = "toFormats" /\ prev.amount = -7500 /\ prev.currency.code = "usd"
    /\ ret.str = <<"-", "7", "5", "0", "0">>
    /\ DecEquals(ret.dec, -75, 2)

\* ------------------------------------------------------------ LocalStore claims

\* the ttl an add was made with: its argument, or the store's default
EffectiveTtl(a) == IF a.ttl.given THEN a.ttl.ms ELSE defaultTtl

\* the default ttl of a store constructed without an argument
OneMinute == 60000

\* C14: after add(k, v, ttl) at time t (ttl defaulting to the store's
\* default, 60000 ms when the constructor got none) and no later add or
\* remove of k, get(k) returns v at every time up to and including t + ttl,
\* and null at every later time, when it also deletes the record of k.
C14_TtlExpiry ==
    /\ (storeCall.op = "constructor" /\ ~storeCall.ttl.given) => defaultTtl = OneMinute
    /\ (storeCall.op = "get" /\ lastAdd[storeCall.key].set) =>
          LET a == lastAdd[storeCall.key] IN
          IF now <= a.at + EffectiveTtl(a)
          THEN storeRet = a.value
          ELSE storeRet = Null /\ ~MapHas(cache, storeCall.key)

\* C14 holds of every get unless a cleanup() ran at the very millisecond
\* t + ttl and deleted the record then.
C14_TtlExpiryUnlessSwept ==
    /\ (storeCall.op = "constructor" /\ ~storeCall.ttl.given) => defaultTtl = OneMinute
    /\ (storeCall.op = "get" /\ lastAdd[storeCall.key].set) =>
          LET a == lastAdd[storeCall.key] IN
          IF now <= a.at + EffectiveTtl(a)
          THEN (storeRet = a.value \/ (a.swept /\ now = a.at + EffectiveTtl(a)))
          ELSE storeRet = Null /\ ~MapHas(cache, storeCall.key)

\* C15: add on a key that has a record replaces the value and the expiry:
\* after add(k, v1, ttl1) and then add(k, v2, ttl2) at time t2, the record of
\* k is v2 expiring at t2 + ttl2, so get(k) returns v2 before t2 + ttl2 and
\* null after it, whatever ttl1 was and whether or not the first record had
\* expired; and the store never holds two records of one key.
C15_AddReplaces ==
    /\ \A i, j \in 1..Len(cache) : cache[i].key = cache[j].key => i = j
    /\ storeCall.op = "add" =>
          /\ MapHas(cache, storeCall.key)
          /\ MapGet(cache, storeCall.key)
                = CacheRecord(storeCall.value, now + EffectiveTtl(storeCall))
    /\ (storeCall.op = "get" /\ lastAdd[storeCall.key].set) =>
          LET a == lastAdd[storeCall.key] IN
          /\ now < a.at + EffectiveTtl(a) => storeRet = a.value
          /\ now > a.at + EffectiveTtl(a) => storeRet = Null

C15_Witness ==
    /\ storeCall.op = "get" /\ lastAdd[storeCall.key].set
    /\ lastAdd[storeCall.key].replaced = "expired"
    /\ now < lastAdd[storeCall.key].at + EffectiveTtl(lastAdd[storeCall.key])
    /\ storeRet = lastAdd[storeCall.key].value

\* ------------------------------------------------------------ BulkPromises claims

RECURSIVE QueueAfter(_)

\* the functions waiting after the calls h: the constructor's initial
\* functions, then those of add and of addIf(true, ...), in call order,
\* beginning again after each run
QueueAfter(h) ==
    IF h = <<>> THEN <<>>
    ELSE LET e == h[Len(h)]
             q == QueueAfter(SubSeq(h, 1, Len(h) - 1))
         IN IF e.op = "constructor" THEN e.init.fns
            ELSE IF e.op = "add" THEN Append(q, e.fn)
            ELSE IF e.op = "addIf" /\ e.condition THEN Append(q, e.fn)
            ELSE IF e.op = "run" THEN <<>>
            ELSE q

\* the functions the n-th run invoked, in the order it invoked them
InvokedBy(n) ==
    LET idx == SelectSeq([i \in 1..Len(invoked) |-> i], LAMBDA i : invoked[i].run = n)
    IN [k \in 1..Len(idx) |-> invoked[idx[k]].fn]

C17_RunClearsQueue ==
    /\ (history # <<>> /\ history[Len(history)].op = "run") => functions = <<>>
    /\ \A n \in 2..Len(runs) :
          runs[n].at = runs[n - 1].at + 1 =>
              /\ runs[n].state = "fulfilled" /\ runs[n].result = <<>>
              /\ InvokedBy(n) = <<>>
    /\ \A m, n \in 1..Len(runs) :
          m < n => \A i \in 1..Len(runs[m].jobs) :
                      /\ \A j \in 1..Len(runs[n].jobs) : runs[n].jobs[j] # runs[m].jobs[i]
                      /\ \A j \in 1..Len(InvokedBy(n)) : InvokedBy(n)[j] # runs[m].jobs[i]
                      /\ \A j \in 1..Len(runs[n].result) :
                            runs[n].result[j] # ResultOf(runs[m].jobs[i])

C17_Witness ==
    /\ Len(runs) = 3
    /\ Len(runs[1].jobs) = 2 /\ runs[1].state = "fulfilled"
    /\ runs[2].at = runs[1].at + 1 /\ runs[2].result = <<>>
    /\ Len(runs[3].jobs) = 1 /\ runs[3].state = "fulfilled"

\* ------------------------------------------------------------ date claims

\* the first instant of the period that the date lies in: of its hour, of its
\* day, of its week (which begins on Sunday), of its month, of its year
StartOf(date, period) ==
    LET FirstDay(span, Begins(_)) == CHOOSE d \in (date.day - span)..date.day :
            Begins(d) /\ \A e \in (d + 1)..date.day : ~Begins(e)
        Sunday(d) == (d + 4) % 7 = 0
        FirstOfMonth(d) == Civil(d).date = 1
        NewYear(d) == Civil(d).date = 1 /\ Civil(d).month = 0
    IN IF period = "hour" THEN [day |-> date.day, ms |-> date.ms - (date.ms % 3600000)]
       ELSE IF period = "day" THEN [day |-> date.day, ms |-> 0]
       ELSE IF period = "week" THEN [day |-> FirstDay(6, Sunday), ms |-> 0]
       ELSE IF period = "month" THEN [day |-> FirstDay(30, FirstOfMonth), ms |-> 0]
       ELSE [day |-> FirstDay(365, NewYear), ms |-> 0]

\* C18: getStartOf(date, period) returns the timestamp of the start of the
\* period the date lies in for every member of Period, hour, day, week,
\* month and year, and throws for none of them.
C18_EveryPeriod ==
    utilCall.fn = "getStartOf" =>
        /\ utilRet.err = "none"
        /\ utilRet.value = StartOf(utilCall.args.date, utilCall.args.period)

\* getStartOf returns the start of the day, week, month and year, and
\* throws for the hour.
C18_EveryPeriodButHour ==
    utilCall.fn = "getStartOf" =>
        IF utilCall.args.period = "hour" THEN utilRet.err = "Error"
        ELSE /\ utilRet.err = "none"
             /\ utilRet.value = StartOf(utilCall.args.date, utilCall.args.period)

\* the range is two valid dates with the start not after the end
ValidRange(start, end) == start.valid /\ end.valid /\ start.t <= end.t

\* C19: validateDateRange(start, end) without a third argument makes no
\* future check: it returns true for any two valid dates with start not
\* after end, equal and past dates included, and false when start is after
\* end or a date is invalid.
C19_NoFutureCheckByDefault ==
    (utilCall.fn = "validateDateRange" /\ ~utilCall.args.greaterNow.given) =>
        /\ utilRet.err = "none"
        /\ utilRet.value = ValidRange(utilCall.args.start, utilCall.args.end)

\* validateDateRange makes the future check unless the third argument is
\* false: without one it returns true only if both dates of a valid range
\* are after the current instant.
C19_FutureCheckByDefault ==
    utilCall.fn = "validateDateRange" =>
        LET a == utilCall.args IN
        /\ utilRet.err = "none"
        /\ utilRet.value =
              /\ ValidRange(a.start, a.end)
              /\ (a.greaterNow.given /\ ~a.greaterNow.value) \/ a.start.t > a.clock

\* ------------------------------------------------------------ chain claims

Mainnets == {1, 10, 56, 137, 101, 8453, 42161}

Testnets == {11155111, 102, 103}

\* C20: in Production only mainnet chain ids are available; in every other
\* environment the testnets and devnets are available in addition: every
\* chain id that is available in Production is available there too.
C20_TestnetsInAddition ==
    utilCall.fn = "isAvailableChain" =>
        LET a == utilCall.args IN
        /\ utilRet.err = "none"
        /\ (a.env = "prod" /\ utilRet.value) => a.chainId \in Mainnets
        /\ (a.env # "prod" /\ a.chainId \in Testnets) => utilRet.value
        /\ (a.env # "prod" /\ isAvailableChain(a.chainId, "prod").value) => utilRet.value

\* outside Production the testnets and devnets are available and nothing else.
C20_TestnetsInstead ==
    utilCall.fn = "isAvailableChain" =>
        LET a == utilCall.args IN
        /\ utilRet.err = "none"
        /\ (a.env = "prod" /\ utilRet.value) => a.chainId \in Mainnets
        /\ a.env # "prod" => (utilRet.value <=> a.chainId \in Testnets)

\* the chain values and the chain ids that have one another
MappedValues == {"eth", "op", "bsc", "polygon", "base", "arb"}

MappedIds == {1, 10, 56, 137, 8453, 42161}

\* C21: getChainIdByValue and getChainValueById are inverses of each other:
\* the value of the id of a chain value is that chain value, the id of the
\* value of a chain id is that chain id wherever a value is returned, and
\* each throws an Error, and returns nothing, for an input without a mapping.
C21_MutuallyInverse ==
    /\ utilCall.fn = "getChainIdByValue" =>
          IF utilCall.args.value \in MappedValues
          THEN /\ utilRet.err = "none" /\ utilRet.value \in MappedIds
               /\ getChainValueById(utilRet.value) = Returned(utilCall.args.value)
          ELSE utilRet = Thrown("Error")
    /\ utilCall.fn = "getChainValueById" =>
          IF utilCall.args.id \in MappedIds
          THEN /\ utilRet.err = "none" /\ utilRet.value \in MappedValues
               /\ getChainIdByValue(utilRet.value) = Returned(utilCall.args.id)
          ELSE utilRet = Thrown("Error")

C21_Witness ==
    /\ utilCall.fn = "getChainValueById" /\ utilCall.args.id = 8453
    /\ utilRet = Returned("base")
    /\ getChainIdByValue("base") = Returned(8453)

\* ------------------------------------------------------------ browser claims

\* the user agent of the last call, in lower case, contains the text
Has(text) == includesString(toLowerCase(utilCall.args.userAgent.s), text)

\* the user agent of the last call matches a bot pattern: each of the
\* eighteen contains one of these seven
IsBot ==
    \E p \in { <<"b", "o", "t">>, <<"c", "r", "a", "w", "l", "e", "r">>, <<"s", "p", "i", "d", "e", "r">>,
               <<"s", "c", "r", "a", "p", "e", "r">>, <<"s", "l", "u", "r", "p">>,
               <<"f", "a", "c", "e", "b", "o", "o", "k", "e", "x", "t", "e", "r", "n", "a", "l", "h", "i", "t">>,
               <<"w", "h", "a", "t", "s", "a", "p", "p">> } : Has(p)

\* the user agent of the last call matches a rule that comes before Internet
\* Explorer's: Edge, Samsung, Yandex, Opera, Vivaldi, Brave, UC, Chrome,
\* Firefox or Safari
EarlierRule ==
    \/ Has(<<"e", "d", "g", "/">>) \/ Has(<<"e", "d", "g", "e", "/">>)
    \/ Has(<<"s", "a", "m", "s", "u", "n", "g", "b", "r", "o", "w", "s", "e", "r">>)
    \/ Has(<<"y", "a", "b", "r", "o", "w", "s", "e", "r">>)
    \/ Has(<<"o", "p", "r", "/">>) \/ Has(<<"o", "p", "e", "r", "a", "/">>)
    \/ Has(<<"v", "i", "v", "a", "l", "d", "i">>) \/ Has(<<"b", "r", "a", "v", "e">>)
    \/ Has(<<"u", "c", "b", "r", "o", "w", "s", "e", "r">>)
    \/ Has(<<"c", "h", "r", "o", "m", "e", "/">>) /\ ~Has(<<"c", "h", "r", "o", "m", "i", "u", "m", "/">>)
    \/ Has(<<"f", "i", "r", "e", "f", "o", "x", "/">>)
    \/ Has(<<"s", "a", "f", "a", "r", "i", "/">>) /\ ~Has(<<"c", "h", "r", "o", "m", "e", "/">>)

IsInternetExplorer == Has(<<"m", "s", "i", "e">>) \/ Has(<<"t", "r", "i", "d", "e", "n", "t", "/">>)

\* C22: getBrowser returns Browser.InternetExplorer for every user agent
\* that is no bot's, contains 'msie' or 'trident/' and matches none of the
\* earlier rules; a user agent with both 'edg/' and 'chrome/' gives Edge;
\* and every user agent that matches a bot pattern gives Other.
C22_InternetExplorer ==
    (utilCall.fn = "getBrowser" /\ utilCall.args.userAgent.given) =>
        /\ utilRet.err = "none"
        /\ IsBot => utilRet.value = "other"
        /\ (~IsBot /\ Has(<<"e", "d", "g", "/">>) /\ Has(<<"c", "h", "r", "o", "m", "e", "/">>)) => utilRet.value = "edge"
        /\ (~IsBot /\ ~EarlierRule /\ IsInternetExplorer) => utilRet.value = "ie"

\* getBrowser returns Other, and never InternetExplorer, for the user
\* agents of Internet Explorer; the other two parts of C22 hold.
C22_InternetExplorerIsOther ==
    (utilCall.fn = "getBrowser" /\ utilCall.args.userAgent.given) =>
        /\ utilRet.err = "none"
        /\ IsBot => utilRet.value = "other"
        /\ (~IsBot /\ Has(<<"e", "d", "g", "/">>) /\ Has(<<"c", "h", "r", "o", "m", "e", "/">>)) => utilRet.value = "edge"
        /\ (~IsBot /\ ~EarlierRule /\ IsInternetExplorer) => utilRet.value = "other"
        /\ utilRet.value # "ie"

\* ------------------------------------------------------------ CurrencyAmount: errors and frame

\* C23: when add, subtract, lt, lte, gt or gte gets an argument that fails
\* to parse, or multiply or divide a factor for which the result is not a
\* finite number (divide(0), multiply(NaN)), the call raises an error and
\* the amount and the currency of the instance are what they were before.
C23_FailedCallLeavesState ==
    /\ (call.op \in {"add", "subtract"} \cup Comparisons
            /\ ~parseInput(call.arg, prev.currency).ok) =>
          (err = "SyntaxError" /\ inst = prev)
    /\ (call.op \in {"add", "subtract"} \cup Comparisons
            /\ call.arg = Str(<<"a", "b", "c">>)) =>
          (err # "none" /\ inst = prev)
    /\ (call.op = "multiply" /\ Times(prev.amount, call.arg.x).kind # "fin") =>
          (err = "RangeError" /\ inst = prev)
    /\ (call.op = "divide" /\ Over(prev.amount, call.arg.x).kind # "fin") =>
          (err = "RangeError" /\ inst = prev)
    /\ (call.op \notin {"none", "constructor"} /\ err # "none") =>
          (inst.amount = prev.amount /\ inst.currency = prev.currency /\ ret = NoValue)

C23_Witness ==
    /\ call.op = "divide" /\ call.arg = NumV(Zero) /\ err = "RangeError"
    /\ nops = 2 /\ prev.amount # 0 /\ prev.amount # chain.base
    /\ inst = prev

Readers == Comparisons \cup {"isPositive", "toAtomic", "toDecimal", "toFormats"}

\* C24: lt, lte, gt, gte, isPositive, toAtomic, toDecimal and toFormats
\* never change the amount; only add, subtract, multiply and divide change
\* it; and no call after the construction changes the currency.
C24_Frame ==
    /\ call.op \in Readers => inst.amount = prev.amount
    /\ (call.op \notin {"none", "constructor"} /\ inst.amount # prev.amount) =>
          call.op \in Arithmetic
    /\ call.op \notin {"none", "constructor"} =>
          (inst.live /\ prev.live /\ inst.currency = prev.currency)
    /\ inst.live => inst.currency = currencyMap[inst.currency.code]

C24_Witness ==
    /\ call.op = "lt" /\ err = "none" /\ nops = 2
    /\ parseInput(call.arg, prev.currency).val # 0
    /\ inst.amount = prev.amount /\ inst.amount # chain.base
    /\ inst.currency = currencyMap["sol"]

====
